---- MODULE Spec2Model ----
(***************************************************************************)
(* State-machine model of the chaitorch training extensions                *)
(* (src/chaitorch/training/extension.py) as they are driven by the sample  *)
(* scripts src/train_with_trainer.py and src/cub_triplet.py.               *)
(*                                                                         *)
(* The Trainer loop, the Updater, the triggers and the Reporter/Summarizer *)
(* pair live in chaitorch modules that are imported but not part of the    *)
(* sources at hand; they are modelled from the written specification.      *)
(*                                                                         *)
(* Spec is the run of a trainer with its extensions; TriggerSpec exercises *)
(* a periodic and a min-value trigger on their own.                        *)
(***************************************************************************)
EXTENDS Integers, Sequences, FiniteSets, TLC

(***************************************************************************)
(* Bounds of the model.                                                    *)
(***************************************************************************)
\* the stopping trigger's span, Trainer(updater, {'epoch': N})
MaxEpoch == 2
\* batches per traversal of the training data loader
EpochLen == 2
\* largest length of the evaluator's data loader (0 = empty loader)
MaxLoaderLen == 2
\* ProgressBar(update_interval)
UpdateInterval == 2
\* largest interval of a periodic trigger exercised on its own
MaxInterval == 3
\* number of calls made to a min-value trigger exercised on its own
MaxCalls == 6

\* the losses the Updater may report for one training batch
TrainLossValues == {1, 3}
\* the losses the loss function may report for one evaluation batch
EvalLossValues == {1, 2}
\* the values of its key a min-value trigger exercised on its own may be shown
ObservedValues == {1, 2, 3, 4, 5}
\* the recall scores recall_at_rank_k_list may return (one per cutoff rank)
RecallScores == {[k \in {1, 2, 4, 8} |-> k]}

(***************************************************************************)
(* Rational numbers <<n, d>> with d > 0, kept in lowest terms: the means   *)
(* the Summarizer computes are quotients.                                  *)
(***************************************************************************)
RECURSIVE GCD(_, _)
GCD(a, b) == IF b = 0 THEN a ELSE GCD(b, a % b)

Abs(n) == IF n < 0 THEN -n ELSE n

Rat(n, d) == LET g == GCD(Abs(n), d) IN <<n \div g, d \div g>>

RatInt(n) == <<n, 1>>

RatAdd(a, b) == Rat(a[1] * b[2] + b[1] * a[2], a[2] * b[2])

RatDivInt(a, n) == Rat(a[1], a[2] * n)

RatLess(a, b) == a[1] * b[2] < b[1] * a[2]

(***************************************************************************)
(* Observations: finite mappings from key to value.                        *)
(***************************************************************************)
EmptyMap == [k \in {} |-> RatInt(0)]

MapMerge(dst, src) ==
    [k \in DOMAIN dst \cup DOMAIN src |-> IF k \in DOMAIN src THEN src[k] ELSE dst[k]]

MapRestrict(m, keys) == [k \in DOMAIN m \cap keys |-> m[k]]

Key(ns, name) == ns \o "/" \o name

RecallKey(k) ==
    CASE k = 1 -> "R@1" [] k = 2 -> "R@2" [] k = 4 -> "R@4" [] OTHER -> "R@8"

(***************************************************************************)
(* Summarizer: key -> <<running sum, running count>>.                      *)
(***************************************************************************)
SummarizerAdd(s, obs) ==
    [k \in DOMAIN s \cup DOMAIN obs |->
        IF k \in DOMAIN obs
        THEN IF k \in DOMAIN s
             THEN <<RatAdd(s[k][1], obs[k]), s[k][2] + 1>>
             ELSE <<obs[k], 1>>
        ELSE s[k]]

ComputeMean(s) == [k \in DOMAIN s |-> RatDivInt(s[k][1], s[k][2])]

(***************************************************************************)
(* Reporter: a stack of scopes.  A scope is opened by a reporter whose     *)
(* observer prefix is `prefix`, accumulates into its own fresh mapping and *)
(* hands that mapping to its destination when it is left.                  *)
(***************************************************************************)
ScopeEnter(stack, dest, prefix) ==
    Append(stack, [dest |-> dest, prefix |-> prefix, map |-> EmptyMap])

PrefixKeys(prefix, values) ==
    [k \in {Key(prefix, n) : n \in DOMAIN values} |->
        values[CHOOSE n \in DOMAIN values : Key(prefix, n) = k]]

\* report(values, observer): into the innermost scope, keys prefixed when the
\* observer is registered with the reporter that opened the scope
ReportInScope(stack, values, observed) ==
    LET top == stack[Len(stack)]
        vals == IF observed THEN PrefixKeys(top.prefix, values) ELSE values
    IN [stack EXCEPT ![Len(stack)].map = MapMerge(@, vals)]

\* the mapping the innermost scope hands to its destination on exit
ScopeResult(stack, destValue) == MapMerge(destValue, stack[Len(stack)].map)

ScopeExit(stack) == SubSeq(stack, 1, Len(stack) - 1)

(***************************************************************************)
(* Triggers.                                                               *)
(***************************************************************************)
\* a variant that fires on the level, not on the edge
PeriodicFiresOnLevel(cur, last, n) == cur % n = 0

\* periodic trigger with interval n: fires when the counter crosses a multiple
PeriodicFires(cur, last, n) == (cur \div n) > (last \div n)

\* +infinity, the initial best of a min-value trigger
Infinity == <<1, 0>>

\* a variant that also fires on a value equal to the stored best
MinValueFiresOnEqual(obs, key, best) == key \in DOMAIN obs /\ ~RatLess(best, obs[key])

\* best-value (min) trigger on `key`
MinValueFires(obs, key, best) == key \in DOMAIN obs /\ RatLess(obs[key], best)

MinValueBest(obs, key, best) == IF MinValueFires(obs, key, best) THEN obs[key] ELSE best

(***************************************************************************)
(* Extensions and their priorities.                                        *)
(***************************************************************************)
Evaluators == {"ClassifyEvaluater", "MetricEvaluater"}

\* a variant in which no subclass overrides Extension.priority
PriorityDefault(ext) == 0

Priority(ext) ==
    CASE ext = "LogReport" -> 0
      [] ext = "ProgressBar" -> -1
      [] ext = "ClassifyEvaluater" -> -1
      [] ext = "MetricEvaluater" -> -1
      [] ext = "SnapshotModel" -> 0

\* a variant in which the per-batch scope is opened on trainer.observation
EvalScopeDestTrainer(ev) == "trainer"

\* the destination of an evaluator's per-batch scope: the local dict
\* `observation = {}` made for the batch
EvalScopeDest(ev) == "batch"

\* the observer name the evaluator registers for the model
EvalPrefix(ev) == IF ev = "ClassifyEvaluater" THEN "validation" ELSE "eval"

\* stable insertion of e into a sequence already in descending priority
RECURSIVE InsertByPriority(_, _)
InsertByPriority(sorted, e) ==
    IF sorted = <<>> THEN <<e>>
    ELSE IF Priority(Head(sorted)) >= Priority(e)
         THEN <<Head(sorted)>> \o InsertByPriority(Tail(sorted), e)
         ELSE <<e>> \o sorted

RECURSIVE SortByPriority(_)
SortByPriority(exts) ==
    IF exts = <<>> THEN <<>>
    ELSE InsertByPriority(SortByPriority(SubSeq(exts, 1, Len(exts) - 1)), exts[Len(exts)])

\* the extensions the sample scripts register, in their order
SampleRegistration(ev) == <<"LogReport", "ProgressBar", ev, "SnapshotModel">>

\* the keys the sample scripts ask LogReport for, in the order of the columns
LogKeyList(ev) ==
    IF ev = "ClassifyEvaluater"
    THEN <<"epoch", "training/loss", "training/accuracy", "validation/loss",
           "validation/accuracy", "elapsed_time">>
    ELSE <<"epoch", "training/loss", "eval/loss", "eval/R@1", "eval/R@2", "eval/R@4",
           "eval/R@8", "elapsed_time">>

\* the keys the sample scripts ask LogReport for
LogKeys(ev) ==
    IF ev = "ClassifyEvaluater"
    THEN {"epoch", "training/loss", "training/accuracy", "validation/loss",
          "validation/accuracy", "elapsed_time"}
    ELSE {"epoch", "training/loss", "eval/loss", "eval/R@1", "eval/R@2", "eval/R@4",
          "eval/R@8", "elapsed_time"}

(***************************************************************************)
(* Program constants of the sample scripts and the extensions' defaults.   *)
(***************************************************************************)
\* LogReport([...], {'epoch': 1})
LogInterval == 1
\* ClassifyEvaluater / MetricEvaluater default trigger={'epoch': 1}
EvalInterval == 1
\* the decimals of a printed value, f'{...:.5f}'
Precision == 5
\* SnapshotModel default trigger={'epoch': 1}
SnapshotInterval == 1

(***************************************************************************)
(* State.                                                                  *)
(***************************************************************************)
VARIABLES
    \* configuration of the run, fixed at construction
    registered,     \* the extensions in the order trainer.extend() was called
    loaderLen,      \* number of batches of the evaluator's data loader
    snapTrigger,    \* "min": MinValueTrigger on the evaluator's loss; "epoch": periodic
    saveDir,        \* SnapshotModel.save_dir ("" = the output directory itself)
    modelNames,     \* the keys of updater.models; empty: the updater has one `model`
    \* Trainer and Updater
    pc,             \* position of the (single) thread of control
    extIdx,         \* index of the extension being called, in invocation order
    finIdx,         \* index of the extension being finalized
    err,            \* the error that ended the run ("none" when there is none)
    epoch, iteration, total_iter, elapsed_time,
    stopLast,       \* counter last seen by the stopping trigger
    observation,    \* trainer.observation
    scopes,         \* the Reporter's stack of scopes
    modelMode,      \* "train" / "eval": updater.model's mode
    \* LogReport
    lrSummary, lrLast, log, tmpFile, logFile, printed,
    console,        \* the lines printout has written to standard output
    \* ProgressBar
    drawn,
    \* evaluator
    evLast, evSummary, evalObs, bIdx,
    \* SnapshotModel
    snapLast, snapBest, dirExists, files,
    writers,        \* history: per path, which of __call__ / finalize wrote it
    fireStep,       \* history: the step (total_iter) of the trigger's latest fire
    \* history (not program state): what happened, for stating properties
    calls,          \* the extensions invoked so far in the current step
    finalized,      \* how often finalize was invoked, per extension
    trainSum,       \* per epoch, the sum of the losses the Updater reported
    trainCnt,       \* per epoch, how many losses the Updater reported
    passLosses,     \* the losses of the batches of the current evaluation pass
    evalEnd,        \* how the evaluator call of the current step ended
    evalReported,   \* what the evaluator reported after its pass in the current step
    prevBest,       \* the lowest loss the evaluator reported in earlier steps
    snapStep,       \* the step (total_iter) of the latest interval snapshot
    \* a trigger exercised on its own, outside any trainer
    trigKind,       \* "periodic" / "min"; "none" when a trainer runs
    trigN,          \* the interval of the periodic trigger
    trigCounter,    \* the counter value the periodic trigger is called with next
    trigLast,       \* the counter value the periodic trigger saw last
    trigBest,       \* the best value the min-value trigger has stored
    fed,            \* the observations the min-value trigger was called with
    fired           \* what each call of the trigger returned

configVars == <<registered, loaderLen, snapTrigger, saveDir, modelNames>>
counterVars == <<epoch, iteration, total_iter, elapsed_time>>
logVars == <<lrSummary, lrLast, log, tmpFile, logFile, printed, console>>
evalVars == <<evLast, evSummary, evalObs, bIdx>>
snapVars == <<snapLast, snapBest, dirExists, files, writers, fireStep>>
histVars == <<finalized, trainSum, trainCnt, passLosses, evalEnd, evalReported, prevBest,
             snapStep>>

trigVars == <<trigKind, trigN, trigCounter, trigLast, trigBest, fed, fired>>

trainerVars == <<configVars, pc, extIdx, finIdx, err, counterVars, stopLast, observation,
                 scopes, modelMode, logVars, drawn, evalVars, snapVars, calls, histVars>>

vars == <<trainerVars, trigVars>>

Exts == {registered[i] : i \in 1..Len(registered)}

\* the evaluator registered on this trainer
Evaluator == CHOOSE e \in Evaluators : e \in Exts

\* Trainer.run invokes the extensions in this order
Order == SortByPriority(registered)

CurExt == Order[extIdx]

NoFile == [exists |-> FALSE, bytes |-> <<>>]

Unbound == [bound |-> FALSE, map |-> EmptyMap]

Bound(m) == [bound |-> TRUE, map |-> m]

\* the updaters the model runs: one with a single `model`, one with a mapping
\* of named models
ModelNameSets == {{}, {"snapshot", "latest"}}

\* the registration orders the model runs: the sample's, and the sample's with
\* the evaluator registered first and the logger last
Registrations ==
    {SampleRegistration(ev) : ev \in Evaluators}
    \cup {<<ev, "SnapshotModel", "ProgressBar", "LogReport">> : ev \in Evaluators}

\* no trigger is exercised on its own
TriggerIdle ==
    /\ trigKind = "none"
    /\ trigN = 1 /\ trigCounter = 0 /\ trigLast = 0
    /\ trigBest = Infinity
    /\ fed = <<>> /\ fired = <<>>

TrainerInit ==
    /\ registered \in Registrations
    /\ loaderLen \in 0..MaxLoaderLen
    /\ snapTrigger \in {"min", "epoch"}
    /\ saveDir \in {"", "snapshots"}
    /\ modelNames \in ModelNameSets
    /\ pc = "step"
    /\ extIdx = 1
    /\ finIdx = 1
    /\ err = "none"
    /\ epoch = 0 /\ iteration = 0 /\ total_iter = 0 /\ elapsed_time = 0
    /\ stopLast = 0
    /\ observation = EmptyMap
    /\ scopes = <<>>
    /\ modelMode = "train"
    /\ lrSummary = EmptyMap /\ lrLast = 0 /\ log = <<>>
    /\ tmpFile = NoFile /\ logFile = NoFile /\ printed = 0
    /\ console = <<>>
    /\ drawn = 0
    /\ evLast = 0 /\ evSummary = EmptyMap /\ evalObs = Unbound /\ bIdx = 0
    /\ snapLast = 0 /\ snapBest = Infinity
    /\ dirExists = (saveDir = "")
    /\ files = [f \in {} |-> 0]
    /\ writers = [f \in {} |-> {}]
    /\ fireStep = 0
    /\ calls = <<>>
    /\ finalized = [e \in Exts |-> 0]
    /\ trainSum = [e \in 1..MaxEpoch |-> 0]
    /\ trainCnt = [e \in 1..MaxEpoch |-> 0]
    /\ passLosses = <<>>
    /\ evalEnd = "none"
    /\ evalReported = EmptyMap
    /\ prevBest = Infinity
    /\ snapStep = 0

Init == TrainerInit /\ TriggerIdle

(***************************************************************************)
(* Control flow of Trainer.run.                                            *)
(***************************************************************************)
\* an extension call returns: on to the next extension, or to the stop check
Return ==
    /\ IF extIdx < Len(registered)
       THEN pc' = "ext" /\ extIdx' = extIdx + 1
       ELSE pc' = "stop" /\ extIdx' = extIdx
    /\ UNCHANGED <<finIdx, err>>

\* a variant in which an error ends the run without any finalize
RaiseWithoutFinalize(e) == err' = e /\ pc' = "done" /\ finIdx' = finIdx /\ extIdx' = extIdx

\* an error propagates out of the step or of an extension call: the run ends
Raise(e) == err' = e /\ pc' = "finalize" /\ finIdx' = 1 /\ extIdx' = extIdx

\* control stays inside the extension being called
Goto(label) == pc' = label /\ UNCHANGED <<extIdx, finIdx, err>>

\* report(values) outside every evaluation scope
ReportTopLevel(values) ==
    IF scopes = <<>>
    THEN observation' = MapMerge(observation, values) /\ scopes' = scopes
    ELSE observation' = observation /\ scopes' = ReportInScope(scopes, values, FALSE)

\* a scope is left: its mapping is copied into its destination and the scope
\* below becomes the active target again
LeaveScope(stack) ==
    LET top == stack[Len(stack)]
    IN /\ scopes' = ScopeExit(stack)
       /\ IF top.dest = "trainer"
          THEN observation' = MapMerge(observation, top.map) /\ evalObs' = evalObs
          ELSE evalObs' = Bound(MapMerge(evalObs.map, top.map)) /\ observation' = observation

\* the key under which the evaluator's loss reaches the trainer's observation
EvalLossKey == Key(EvalPrefix(Evaluator), "loss")

LossReport(v) == [n \in {"loss"} |-> RatInt(v)]

\* the lowest loss the evaluator reported up to and including the step that
\* ends (followed for runs whose snapshots hang on a min-value trigger)
EarlierBest ==
    IF /\ snapTrigger = "min"
       /\ EvalLossKey \in DOMAIN evalReported
       /\ RatLess(evalReported[EvalLossKey], prevBest)
    THEN evalReported[EvalLossKey]
    ELSE prevBest

\* one optimization step: the Updater reports its loss inside the step's scope
\* and advances its counters; the Trainer counts the iteration
TrainerStep ==
    /\ pc = "step"
    /\ \E v \in TrainLossValues :
         LET inScope == ReportInScope(ScopeEnter(scopes, "trainer", "training"),
                                      LossReport(v), TRUE)
             it == IF iteration = EpochLen THEN 1 ELSE iteration + 1
         IN /\ observation' = ScopeResult(inScope, EmptyMap)
            /\ scopes' = ScopeExit(inScope)
            /\ iteration' = it
            /\ epoch' = IF it = EpochLen THEN epoch + 1 ELSE epoch
            /\ trainSum' = [trainSum EXCEPT ![epoch + 1] = @ + v]
            /\ trainCnt' = [trainCnt EXCEPT ![epoch + 1] = @ + 1]
    /\ total_iter' = total_iter + 1
    /\ elapsed_time' = elapsed_time + 1
    /\ pc' = "ext" /\ extIdx' = 1
    /\ calls' = <<>>
    /\ evalEnd' = "none" /\ evalReported' = EmptyMap /\ passLosses' = <<>>
    /\ prevBest' = EarlierBest
    /\ UNCHANGED <<trigVars, configVars, finIdx, err, stopLast, modelMode, logVars, drawn, evalVars,
                   snapVars, finalized, snapStep>>

\* the optimization step raises: nothing was reported, no counter advanced
TrainerStepFails ==
    /\ pc = "step"
    /\ observation' = EmptyMap
    /\ calls' = <<>>
    /\ Raise("StepError")
    /\ evalEnd' = "none" /\ evalReported' = EmptyMap /\ passLosses' = <<>>
    /\ prevBest' = EarlierBest
    /\ UNCHANGED <<trigVars, configVars, counterVars, stopLast, scopes, modelMode, logVars, drawn,
                   evalVars, snapVars, finalized, trainSum, trainCnt, snapStep>>

\* after the extensions: the stopping trigger decides whether the run goes on
StopCheck ==
    /\ pc = "stop"
    /\ stopLast' = epoch
    /\ IF PeriodicFires(epoch, stopLast, MaxEpoch)
       THEN pc' = "finalize" /\ finIdx' = 1
       ELSE pc' = "step" /\ finIdx' = finIdx
    /\ UNCHANGED <<trigVars, configVars, extIdx, err, counterVars, observation, scopes, modelMode,
                   logVars, drawn, evalVars, snapVars, calls, histVars>>

(***************************************************************************)
(* LogReport.                                                              *)
(***************************************************************************)
\* a variant in which the record takes the Updater's iteration within the epoch
LogRecordOfUpdater(means) ==
    MapMerge(means,
             [k \in {"epoch", "iteration", "elapsed_time"} |->
                 CASE k = "epoch" -> RatInt(epoch)
                   [] k = "iteration" -> RatInt(iteration)
                   [] OTHER -> RatInt(elapsed_time)])

\* the record a fire appends: the interval's means plus the trainer's counters
LogRecord(means) ==
    MapMerge(means,
             [k \in {"epoch", "iteration", "elapsed_time"} |->
                 CASE k = "epoch" -> RatInt(epoch)
                   [] k = "iteration" -> RatInt(total_iter)
                   [] OTHER -> RatInt(elapsed_time)])

\* json.dump(self.log): the file's content as a sequence of tokens, so that an
\* interrupted write leaves a proper prefix of it
Serialize(records) ==
    <<[tok |-> "["]>>
    \o [i \in 1..Len(records) |-> [tok |-> "record", val |-> records[i]]]
    \o <<[tok |-> "]"]>>

\* a variant in which the summarizer is not replaced after a fire
InitSummaryKept == lrSummary

\* what the previous summarizer becomes after a fire
InitSummary == EmptyMap

\* a variant in which the summarizer is replaced before the log is written
SummaryResetAtFire(added) == InitSummary

\* the summarizer while the log is written: compute_mean() has left it as it
\* is, _init_summary() comes last in __call__
SummaryAtFire(added) == added

\* a variant in which __call__ consults its trigger a second time before it
\* acts: the second call finds the counter it has just been shown
LogReportFiresTwice ==
    PeriodicFires(epoch, lrLast, LogInterval) /\ PeriodicFires(epoch, epoch, LogInterval)

\* `if self.trigger(trainer):`, the one place __call__ consults its trigger
LogReportFires == PeriodicFires(epoch, lrLast, LogInterval)

\* __call__ up to the opening of the temporary file
LogReportCall ==
    /\ pc = "ext" /\ CurExt = "LogReport"
    /\ calls' = Append(calls, "LogReport")
    /\ lrLast' = epoch
    /\ LET added == SummarizerAdd(lrSummary, MapRestrict(observation, LogKeys(Evaluator)))
       IN /\ lrSummary' = (IF LogReportFires THEN SummaryAtFire(added) ELSE added)
          /\ IF LogReportFires
             THEN /\ log' = Append(log, LogRecord(ComputeMean(added)))
                  /\ tmpFile' = [exists |-> TRUE, bytes |-> <<>>]
                  /\ Goto("log_write")
             ELSE /\ Return
                  /\ UNCHANGED <<log, tmpFile>>
    /\ UNCHANGED <<trigVars, configVars, counterVars, stopLast, observation, scopes, modelMode,
                   logFile, printed, console, drawn, evalVars, snapVars, histVars>>

\* a variant in which the file being written is the log file itself
LogWriteInPlace ==
    /\ pc = "log_write"
    /\ Len(tmpFile.bytes) < Len(Serialize(log))
    /\ tmpFile' = [tmpFile EXCEPT !.bytes = Append(@, Serialize(log)[Len(@) + 1])]
    /\ logFile' = tmpFile'
    /\ UNCHANGED <<trigVars, configVars, pc, extIdx, finIdx, err, counterVars, stopLast, observation,
                   scopes, modelMode, lrSummary, lrLast, log, printed, console, drawn, evalVars,
                   snapVars, calls, histVars>>

\* json.dump writes the next piece of the log into the temporary file
LogWrite ==
    /\ pc = "log_write"
    /\ Len(tmpFile.bytes) < Len(Serialize(log))
    /\ tmpFile' = [tmpFile EXCEPT !.bytes = Append(@, Serialize(log)[Len(@) + 1])]
    /\ UNCHANGED <<trigVars, configVars, pc, extIdx, finIdx, err, counterVars, stopLast, observation,
                   scopes, modelMode, lrSummary, lrLast, log, logFile, printed, console, drawn,
                   evalVars, snapVars, calls, histVars>>

\* the write fails (disk full, ...): TemporaryDirectory removes what was written
\* and the error leaves __call__
LogWriteFails ==
    /\ pc = "log_write"
    /\ Len(tmpFile.bytes) < Len(Serialize(log))
    /\ tmpFile' = NoFile
    /\ Raise("OSError")
    /\ UNCHANGED <<trigVars, configVars, counterVars, stopLast, observation, scopes, modelMode,
                   lrSummary, lrLast, log, logFile, printed, console, drawn, evalVars, snapVars,
                   calls, histVars>>

\* f'{v:.5f}': the value in fixed point, as the integer v * 10^Precision
\* rounded to the nearest
FormatFixed(v) == (2 * v[1] * 10^Precision + v[2]) \div (2 * v[2])

\* f'{v:}' of a counter: the integer itself
FormatInt(v) == v[1] \div v[2]

BlankCell == [width |-> 20, kind |-> "blank", digits |-> 0]

\* a variant without the `except KeyError`: a missing key ends printout
PrintCellStrict(key, record) ==
    IF key \notin DOMAIN record
    THEN [width |-> 0, kind |-> "KeyError", digits |-> 0]
    ELSE IF key \in {"epoch", "iteration"}
         THEN [width |-> 10, kind |-> "int", digits |-> FormatInt(record[key])]
         ELSE [width |-> 20, kind |-> "fixed", digits |-> FormatFixed(record[key])]

\* one column of the line: the value of the key in the record, left-justified
\* in 10 (epoch, iteration) or 20 characters, or 20 blanks when the record
\* lacks the key (the KeyError is caught)
PrintCell(key, record) ==
    IF key \notin DOMAIN record
    THEN BlankCell
    ELSE IF key \in {"epoch", "iteration"}
         THEN [width |-> 10, kind |-> "int", digits |-> FormatInt(record[key])]
         ELSE [width |-> 20, kind |-> "fixed", digits |-> FormatFixed(record[key])]

\* printout: the columns of the requested keys for the last record
Printout(keys, record) == [i \in 1..Len(keys) |-> PrintCell(keys[i], record)]

\* an error came out of the rendering of a column
PrintoutRaises(line) == \E i \in 1..Len(line) : line[i].kind = "KeyError"

\* the temporary file is complete: move it over the log, print, reset the summary
LogMove ==
    /\ pc = "log_write"
    /\ tmpFile.bytes = Serialize(log)
    /\ logFile' = tmpFile
    /\ tmpFile' = NoFile
    /\ LET line == Printout(LogKeyList(Evaluator), log[Len(log)])
       IN IF PrintoutRaises(line)
          THEN /\ Raise("KeyError")
               /\ UNCHANGED <<printed, console, lrSummary>>
          ELSE /\ printed' = printed + 1
               /\ console' = Append(console, line)
               /\ lrSummary' = InitSummary
               /\ Return
    /\ UNCHANGED <<trigVars, configVars, counterVars, stopLast, observation, scopes,
                   modelMode, lrLast, log, drawn, evalVars, snapVars, calls, histVars>>

(***************************************************************************)
(* ProgressBar.                                                            *)
(***************************************************************************)
ProgressBarCall ==
    /\ pc = "ext" /\ CurExt = "ProgressBar"
    /\ calls' = Append(calls, "ProgressBar")
    /\ IF total_iter % UpdateInterval = 0
       THEN LET epoch_len == EpochLen
                overall_len == MaxEpoch * epoch_len
            IN IF overall_len = 0
               THEN Raise("ZeroDivisionError") /\ drawn' = drawn
               ELSE Return /\ drawn' = total_iter
       ELSE Return /\ drawn' = drawn
    /\ UNCHANGED <<trigVars, configVars, counterVars, stopLast, observation, scopes,
                   modelMode, logVars, evalVars, snapVars, histVars>>

\* the redraw fails: the division by a zero total above, or sys.stdout.write /
\* flush raising (standard output closed); nothing in __call__ catches it
ProgressBarFails ==
    /\ pc = "ext" /\ CurExt = "ProgressBar"
    /\ total_iter % UpdateInterval = 0
    /\ calls' = Append(calls, "ProgressBar")
    /\ Raise("BrokenPipeError")
    /\ UNCHANGED <<trigVars, configVars, counterVars, stopLast, observation, scopes,
                   modelMode, logVars, drawn, evalVars, snapVars, histVars>>

(***************************************************************************)
(* ClassifyEvaluater.                                                      *)
(***************************************************************************)
\* the trigger is consulted; on a fire a reporter and a summarizer are made
ClassifyEvaluaterCall ==
    /\ pc = "ext" /\ CurExt = "ClassifyEvaluater"
    /\ calls' = Append(calls, "ClassifyEvaluater")
    /\ evLast' = epoch
    /\ IF PeriodicFires(epoch, evLast, EvalInterval)
       THEN IF modelNames # {}
            THEN \* trainer.updater.model: the updater has no such attribute
                 /\ Raise("AttributeError")
                 /\ UNCHANGED <<evSummary, evalObs, bIdx, evalEnd>>
            ELSE /\ evSummary' = EmptyMap /\ evalObs' = Unbound /\ bIdx' = 1
                 /\ evalEnd' = "running"
                 /\ Goto("classify_loop")
       ELSE /\ UNCHANGED <<evSummary, evalObs, bIdx, evalEnd>>
            /\ Return
    /\ UNCHANGED <<trigVars, configVars, counterVars, stopLast, observation, scopes, modelMode,
                   logVars, drawn, snapVars, finalized, trainSum, trainCnt, passLosses,
                   evalReported, prevBest, snapStep>>

\* the next batch: a fresh observation, its scope, the model into eval mode
ClassifyBatch ==
    /\ pc = "classify_loop" /\ bIdx <= loaderLen
    /\ evalObs' = Bound(EmptyMap)
    /\ scopes' = ScopeEnter(scopes, EvalScopeDest("ClassifyEvaluater"),
                            EvalPrefix("ClassifyEvaluater"))
    /\ modelMode' = "eval"
    /\ Goto("classify_loss")
    /\ UNCHANGED <<trigVars, configVars, counterVars, stopLast, observation, logVars, drawn, evLast,
                   evSummary, bIdx, snapVars, calls, histVars>>

\* loss_fn(batch) reports the batch's loss; back to train mode; the scope is
\* left and the batch's observation is folded into the summarizer
ClassifyLoss ==
    /\ pc = "classify_loss"
    /\ \E v \in EvalLossValues :
         /\ LeaveScope(ReportInScope(scopes, LossReport(v), TRUE))
         /\ passLosses' = Append(passLosses, v)
    /\ modelMode' = "train"
    /\ evSummary' = SummarizerAdd(evSummary, evalObs'.map)
    /\ bIdx' = bIdx + 1
    /\ Goto("classify_loop")
    /\ UNCHANGED <<trigVars, configVars, counterVars, stopLast, logVars, drawn, evLast,
                   snapVars, calls, finalized, trainSum, trainCnt, evalEnd, evalReported,
                   prevBest, snapStep>>

\* loss_fn(batch) raises: the scope is left, model.train() is not reached
EvalLossFails ==
    /\ pc \in {"classify_loss", "metric_loss"}
    /\ LeaveScope(scopes)
    /\ evalEnd' = "raised in batch"
    /\ Raise("EvalError")
    /\ UNCHANGED <<trigVars, configVars, counterVars, stopLast, modelMode, logVars,
                   drawn, evLast, evSummary, bIdx, snapVars, calls, finalized, trainSum,
                   trainCnt, passLosses, evalReported, prevBest, snapStep>>

\* the loader is exhausted: report the means; the call's locals are gone
ClassifyReport ==
    /\ pc = "classify_loop" /\ bIdx > loaderLen
    /\ ReportTopLevel(ComputeMean(evSummary))
    /\ evalReported' = ComputeMean(evSummary)
    /\ evalEnd' = "returned"
    /\ evSummary' = EmptyMap /\ evalObs' = Unbound /\ bIdx' = 0
    /\ Return
    /\ UNCHANGED <<trigVars, configVars, counterVars, stopLast, modelMode, logVars, drawn, evLast,
                   snapVars, calls, finalized, trainSum, trainCnt, passLosses, prevBest,
                   snapStep>>

(***************************************************************************)
(* MetricEvaluater.                                                        *)
(***************************************************************************)
\* the trigger is consulted; on a fire the model goes into eval mode
MetricEvaluaterCall ==
    /\ pc = "ext" /\ CurExt = "MetricEvaluater"
    /\ calls' = Append(calls, "MetricEvaluater")
    /\ evLast' = epoch
    /\ IF PeriodicFires(epoch, evLast, EvalInterval)
       THEN IF modelNames # {}
            THEN \* trainer.updater.model: the updater has no such attribute
                 /\ Raise("AttributeError")
                 /\ UNCHANGED <<modelMode, evSummary, evalObs, bIdx, evalEnd>>
            ELSE /\ modelMode' = "eval"
                 /\ evSummary' = EmptyMap /\ evalObs' = Unbound /\ bIdx' = 1
                 /\ evalEnd' = "running"
                 /\ Goto("metric_loop")
       ELSE /\ UNCHANGED <<modelMode, evSummary, evalObs, bIdx, evalEnd>>
            /\ Return
    /\ UNCHANGED <<trigVars, configVars, counterVars, stopLast, observation, scopes, logVars, drawn,
                   snapVars, finalized, trainSum, trainCnt, passLosses, evalReported,
                   prevBest, snapStep>>

\* the next batch: a fresh observation and its scope
MetricBatch ==
    /\ pc = "metric_loop" /\ bIdx <= loaderLen
    /\ evalObs' = Bound(EmptyMap)
    /\ scopes' = ScopeEnter(scopes, EvalScopeDest("MetricEvaluater"),
                            EvalPrefix("MetricEvaluater"))
    /\ Goto("metric_loss")
    /\ UNCHANGED <<trigVars, configVars, counterVars, stopLast, observation, modelMode, logVars,
                   drawn, evLast, evSummary, bIdx, snapVars, calls, histVars>>

\* the triplet loss of the batch is reported for the model; the scope is left
\* and the batch's observation is folded into the summarizer
MetricLoss ==
    /\ pc = "metric_loss"
    /\ \E v \in EvalLossValues :
         /\ LeaveScope(ReportInScope(scopes, LossReport(v), TRUE))
         /\ passLosses' = Append(passLosses, v)
    /\ evSummary' = SummarizerAdd(evSummary, evalObs'.map)
    /\ bIdx' = bIdx + 1
    /\ Goto("metric_loop")
    /\ UNCHANGED <<trigVars, configVars, counterVars, stopLast, modelMode, logVars,
                   drawn, evLast, snapVars, calls, finalized, trainSum, trainCnt, evalEnd,
                   evalReported, prevBest, snapStep>>

\* a variant in which model.train() is not called after the pass
MetricModeKept == modelMode

\* the model's mode once the pass is over: model.train()
MetricModeAfterPass == "train"

\* the scope in which the recall scores are reported: opened on the last
\* batch's observation
MetricRecallScope(scores) ==
    ReportInScope(ScopeEnter(scopes, EvalScopeDest("MetricEvaluater"),
                             EvalPrefix("MetricEvaluater")),
                  [n \in {RecallKey(k) : k \in DOMAIN scores} |->
                      RatInt(scores[CHOOSE k \in DOMAIN scores : RecallKey(k) = n])],
                  TRUE)

\* summarizer.add(observation) inside that scope: the scope's mapping reaches
\* the observation only when the scope is left, so what is added is the
\* observation as the last batch left it
MetricRecallSummary(scores) == SummarizerAdd(evSummary, evalObs.map)

\* the loader is exhausted: back to train mode, the recall scores, the means
MetricReport ==
    /\ pc = "metric_loop" /\ bIdx > loaderLen
    /\ modelMode' = MetricModeAfterPass
    /\ IF ~evalObs.bound
       THEN \* `observation` was never assigned: NameError
            /\ evalEnd' = "raised after pass"
            /\ Raise("NameError")
            /\ UNCHANGED <<observation, scopes, evSummary, evalObs, bIdx, evalReported>>
       ELSE \E scores \in RecallScores :
              LET summary == MetricRecallSummary(scores)
                  inScope == MetricRecallScope(scores)
                  top == inScope[Len(inScope)]
                  afterScope == IF top.dest = "trainer"
                                THEN MapMerge(observation, top.map) ELSE observation
              IN /\ scopes' = ScopeExit(inScope)
                 /\ observation' = MapMerge(afterScope, ComputeMean(summary))
                 /\ evalReported' = ComputeMean(summary)
                 /\ evalEnd' = "returned"
                 /\ evSummary' = EmptyMap /\ evalObs' = Unbound /\ bIdx' = 0
                 /\ Return
    /\ UNCHANGED <<trigVars, configVars, counterVars, stopLast, logVars, drawn, evLast,
                   snapVars, calls, finalized, trainSum, trainCnt, passLosses, prevBest,
                   snapStep>>

(***************************************************************************)
(* SnapshotModel.                                                          *)
(***************************************************************************)
\* os.path.join(save_dir, name) below the output directory
Path(dir, name) == IF dir = "" THEN name ELSE dir \o "/" \o name

\* a variant in which SnapshotModel does not consult its trigger
SnapshotFiresAlways == TRUE

SnapshotFires ==
    IF snapTrigger = "min"
    THEN MinValueFires(observation, EvalLossKey, snapBest)
    ELSE PeriodicFires(epoch, snapLast, SnapshotInterval)

\* a variant in which __call__ writes under the name finalize uses
SnapshotNameAsLatest(k) == k \o "_latest_model.params"

\* the file name of the interval snapshot of the model named k
SnapshotName(k) == k \o "_snapshot_model.params"

\* the file name of the final snapshot of the model named k
LatestName(k) == k \o "_latest_model.params"

\* the files __call__ writes on a fire
SnapshotFiles ==
    IF modelNames = {}
    THEN {Path(saveDir, "snapshot_model.params")}
    ELSE {Path(saveDir, SnapshotName(k)) : k \in modelNames}

\* the files finalize writes
LatestFiles ==
    IF modelNames = {}
    THEN {Path(saveDir, "latest_model.params")}
    ELSE {Path(saveDir, LatestName(k)) : k \in modelNames}

\* torch.save of the models' parameters as they are after step total_iter
SaveParams(paths) ==
    [f \in DOMAIN files \cup paths |-> IF f \in paths THEN total_iter ELSE files[f]]

\* history: these paths were written by `who`
Wrote(paths, who) ==
    [f \in DOMAIN writers \cup paths |->
        IF f \in paths
        THEN (IF f \in DOMAIN writers THEN writers[f] ELSE {}) \cup {who}
        ELSE writers[f]]

\* a variant in which an error of torch.save is swallowed like one of makedirs
SaveErrorSwallowed(e) == Return

\* torch.save stands outside the try: its error leaves __call__
SaveError(e) == Raise(e)

\* what os.makedirs does when the directory is absent: it creates it, or it
\* fails (no permission, ...) and the `except OSError: pass` swallows that too
MakedirsOutcomes == {"created", "failed"}

\* the trigger is consulted; on a fire: makedirs, then torch.save
SnapshotModelCall ==
    /\ pc = "ext" /\ CurExt = "SnapshotModel"
    /\ calls' = Append(calls, "SnapshotModel")
    /\ IF snapTrigger = "min"
       THEN snapBest' = MinValueBest(observation, EvalLossKey, snapBest) /\ snapLast' = snapLast
       ELSE snapLast' = epoch /\ snapBest' = snapBest
    /\ IF SnapshotFires
       THEN /\ fireStep' = total_iter
            /\ \E made \in (IF dirExists THEN {"exists"} ELSE MakedirsOutcomes),
                  saved \in BOOLEAN :
                 /\ dirExists' = (made \in {"exists", "created"})
                 /\ CASE made = "failed" ->
                           \* torch.save finds no directory
                           /\ SaveError("FileNotFoundError")
                           /\ UNCHANGED <<files, writers, snapStep>>
                      [] made # "failed" /\ ~saved ->
                           \* torch.save cannot write the file
                           /\ SaveError("PermissionError")
                           /\ UNCHANGED <<files, writers, snapStep>>
                      [] OTHER ->
                           /\ files' = SaveParams(SnapshotFiles)
                           /\ writers' = Wrote(SnapshotFiles, "call")
                           /\ snapStep' = total_iter
                           /\ Return
       ELSE /\ Return
            /\ UNCHANGED <<dirExists, files, writers, fireStep, snapStep>>
    /\ UNCHANGED <<trigVars, configVars, counterVars, stopLast, observation, scopes, modelMode,
                   logVars, drawn, evalVars, finalized, trainSum, trainCnt, passLosses,
                   evalEnd, evalReported, prevBest>>

(***************************************************************************)
(* Run end.                                                                *)
(***************************************************************************)
\* SnapshotModel.finalize: torch.save into save_dir, which it does not create
SnapshotFinalize ==
    IF dirExists
    THEN /\ files' = SaveParams(LatestFiles)
         /\ writers' = Wrote(LatestFiles, "finalize")
         /\ err' = err
    ELSE /\ files' = files /\ writers' = writers
         /\ err' = IF err = "none" THEN "FileNotFoundError" ELSE err

\* finalize(trainer) of the next extension; after the last one the run is over
Finalize ==
    /\ pc = "finalize"
    /\ finIdx <= Len(registered)
    /\ finalized' = [finalized EXCEPT ![Order[finIdx]] = @ + 1]
    /\ IF Order[finIdx] = "SnapshotModel"
       THEN SnapshotFinalize
       ELSE UNCHANGED <<files, writers, err>>
    /\ drawn' = IF Order[finIdx] = "ProgressBar" THEN 0 ELSE drawn
    /\ finIdx' = finIdx + 1
    /\ pc' = IF finIdx = Len(registered) THEN "done" ELSE "finalize"
    /\ UNCHANGED <<trigVars, configVars, extIdx, counterVars, stopLast, observation, scopes,
                   modelMode, logVars, evalVars, snapLast, snapBest, dirExists, fireStep, calls,
                   trainSum, trainCnt, passLosses, evalEnd, evalReported, prevBest,
                   snapStep>>

\* the process is killed: nothing runs any more, the files stay as they are
Crash ==
    /\ pc \notin {"done", "crashed"}
    /\ pc' = "crashed"
    /\ UNCHANGED <<trigVars, configVars, extIdx, finIdx, err, counterVars, stopLast, observation,
                   scopes, modelMode, logVars, drawn, evalVars, snapVars, calls, histVars>>

Next ==
    \/ TrainerStep
    \/ TrainerStepFails
    \/ StopCheck
    \/ LogReportCall
    \/ LogWrite
    \/ LogWriteFails
    \/ LogMove
    \/ ProgressBarCall
    \/ ProgressBarFails
    \/ ClassifyEvaluaterCall
    \/ ClassifyBatch
    \/ ClassifyLoss
    \/ EvalLossFails
    \/ ClassifyReport
    \/ MetricEvaluaterCall
    \/ MetricBatch
    \/ MetricLoss
    \/ MetricReport
    \/ SnapshotModelCall
    \/ Finalize
    \/ Crash

Spec == Init /\ [][Next]_vars

(***************************************************************************)
(* The triggers exercised on their own: a periodic trigger of interval     *)
(* trigN called once per counter value 0, 1, 2, ..., and a min-value       *)
(* trigger on the key eval/loss called with arbitrary observations.        *)
(***************************************************************************)
TriggerKey == "eval/loss"

\* the observations a call may find: the key absent, or present with a value
Observations ==
    {EmptyMap} \cup {[k \in {TriggerKey} |-> RatInt(v)] : v \in ObservedValues}

\* a trigger is constructed; no trainer runs, its variables stay as one
\* construction leaves them
TriggerInit ==
    /\ TrainerInit
    /\ registered = SampleRegistration("MetricEvaluater")
    /\ loaderLen = 0 /\ snapTrigger = "min" /\ saveDir = "" /\ modelNames = {}
    /\ trigKind \in {"periodic", "min"}
    /\ trigN \in 1..MaxInterval
    /\ trigKind = "min" => trigN = 1
    /\ trigCounter = 0 /\ trigLast = 0
    /\ trigBest = Infinity
    /\ fed = <<>> /\ fired = <<>>

\* the periodic trigger is called with the next counter value
PeriodicEvaluate ==
    /\ trigKind = "periodic"
    /\ trigCounter <= 3 * trigN
    /\ fired' = Append(fired, PeriodicFires(trigCounter, trigLast, trigN))
    /\ trigLast' = trigCounter
    /\ trigCounter' = trigCounter + 1
    /\ UNCHANGED <<trainerVars, trigKind, trigN, trigBest, fed>>

\* the min-value trigger is called with an observation
MinValueEvaluate ==
    /\ trigKind = "min"
    /\ Len(fed) < MaxCalls
    /\ \E obs \in Observations :
         /\ fed' = Append(fed, obs)
         /\ fired' = Append(fired, MinValueFires(obs, TriggerKey, trigBest))
         /\ trigBest' = MinValueBest(obs, TriggerKey, trigBest)
    /\ UNCHANGED <<trainerVars, trigKind, trigN, trigCounter, trigLast>>

TriggerNext == PeriodicEvaluate \/ MinValueEvaluate

TriggerSpec == TriggerInit /\ [][TriggerNext]_vars

(***************************************************************************)
(* Properties.                                                             *)
(***************************************************************************)
RECURSIVE SumSeq(_)
SumSeq(q) == IF q = <<>> THEN 0 ELSE Head(q) + SumSeq(Tail(q))

Range(q) == {q[i] : i \in 1..Len(q)}

RegIndex(e) == CHOOSE i \in 1..Len(registered) : registered[i] = e

InEvaluator == pc \in {"classify_loop", "classify_loss", "metric_loop", "metric_loss"}

InBatch == pc \in {"classify_loss", "metric_loss"}

RunEnding == pc \in {"finalize", "done"}

\* C1: the log file is absent or holds, whole, the serialization of the log
\* as it stood after one of the fires whose move completed; this holds in
\* every state, those after a kill of the process included.
C1_AtomicLog ==
    logFile.exists =>
        \E n \in 1..printed : n <= Len(log) /\ logFile.bytes = Serialize(SubSeq(log, 1, n))

\* the process was killed while the temporary file was half written, with an
\* earlier log on disk
C1_Witness ==
    /\ pc = "crashed"
    /\ logFile.exists
    /\ tmpFile.exists
    /\ tmpFile.bytes # <<>>
    /\ Len(tmpFile.bytes) < Len(Serialize(log))

\* C2: with LogReport triggered every epoch, the i-th record of the log has
\* epoch i and, for the training loss, the mean of the losses the Updater
\* reported in the steps of epoch i alone; records hold requested keys only;
\* a run that ends without error has exactly one record per epoch.
C2_EpochMeans ==
    /\ \A i \in 1..Len(log) :
         /\ i <= MaxEpoch
         /\ log[i]["epoch"] = RatInt(i)
         /\ trainCnt[i] = EpochLen
         /\ "training/loss" \in DOMAIN log[i]
         /\ log[i]["training/loss"] = Rat(trainSum[i], trainCnt[i])
         /\ DOMAIN log[i] \subseteq LogKeys(Evaluator) \cup {"iteration"}
    /\ (pc = "done" /\ err = "none") => Len(log) = MaxEpoch

\* a run ended normally whose first two epochs had different mean losses
C2_Witness ==
    /\ pc = "done" /\ err = "none"
    /\ Len(log) = MaxEpoch
    /\ trainSum[1] # trainSum[2]

\* C3: in a step in which the evaluator reported its mean loss and LogReport
\* appended a record, the record holds that mean under the evaluator's key.
C3_LoggerSeesEvaluator ==
    (/\ pc = "stop"
     /\ evalEnd = "returned"
     /\ EvalLossKey \in DOMAIN evalReported
     /\ Len(log) > 0
     /\ log[Len(log)]["iteration"] = RatInt(total_iter))
    => /\ EvalLossKey \in DOMAIN log[Len(log)]
       /\ log[Len(log)][EvalLossKey] = evalReported[EvalLossKey]

\* C4: the extensions are invoked after the Updater's step has completed, each
\* at most once per step, in descending priority and, among equal priorities,
\* in registration order; a step that completes has invoked every one of them.
\* For the sample registration that is LogReport, SnapshotModel, ProgressBar,
\* evaluator.
C4_InvocationOrder ==
    /\ \A i, j \in 1..Len(calls) :
         i < j =>
           /\ calls[i] # calls[j]
           /\ Priority(calls[i]) >= Priority(calls[j])
           /\ Priority(calls[i]) = Priority(calls[j]) => RegIndex(calls[i]) < RegIndex(calls[j])
    /\ \A i \in 1..Len(calls) : calls[i] \in Exts
    /\ calls # <<>> =>
         /\ "training/loss" \in DOMAIN observation
         /\ trainCnt[1 + ((total_iter - 1) \div EpochLen)] = 1 + ((total_iter - 1) % EpochLen)
    /\ pc = "stop" => Len(calls) = Len(registered)
    /\ (pc = "stop" /\ registered = SampleRegistration(Evaluator)) =>
         calls = <<"LogReport", "SnapshotModel", "ProgressBar", Evaluator>>

\* a completed step of a trainer on which the evaluator was registered first
\* and the logger last
C4_Witness ==
    /\ pc = "stop"
    /\ registered[1] \in Evaluators
    /\ calls = <<"SnapshotModel", "LogReport", registered[1], "ProgressBar">>

\* C5: when the run is over the 'latest' parameter file exists.
C5_LatestWritten ==
    pc = "done" => LatestFiles \subseteq DOMAIN files

\* C6: with a min-value trigger on the evaluator's loss, an interval snapshot is
\* written in a step exactly when the evaluator reported, in that step, a loss
\* lower than every loss it reported before.
C6_SnapshotOnImprovement ==
    (snapTrigger = "min" /\ pc = "stop") =>
        ((snapStep = total_iter)
            <=> (/\ EvalLossKey \in DOMAIN evalReported
                 /\ RatLess(evalReported[EvalLossKey], prevBest)))

\* C7: finalize is invoked on no extension before the run ends, on none twice,
\* and on every registered extension once the run is over, whether the
\* stopping trigger or an error ended it.
C7_FinalizeOnce ==
    /\ \A e \in Exts : finalized[e] <= 1
    /\ (\E e \in Exts : finalized[e] > 0) => (RunEnding \/ pc = "crashed")
    /\ (pc \notin {"finalize", "done", "crashed"}) => \A e \in Exts : finalized[e] = 0
    /\ pc = "done" => \A e \in Exts : finalized[e] = 1

\* a run ended by an error in an evaluation batch, every extension finalized
C7_Witness ==
    /\ pc = "done"
    /\ err = "EvalError"
    /\ \A e \in Exts : finalized[e] = 1

\* C8: the loss an evaluator reports after a pass is the arithmetic mean of the
\* losses of the batches of the pass, every batch counted once.
C8_EvaluatorMean ==
    (evalEnd = "returned" /\ passLosses # <<>>) =>
        /\ EvalLossKey \in DOMAIN evalReported
        /\ evalReported[EvalLossKey] = Rat(SumSeq(passLosses), Len(passLosses))

LogFireStep == pc = "ext" /\ CurExt = "LogReport" /\ PeriodicFires(epoch, lrLast, LogInterval)

\* C11: the log grows by exactly one record in exactly the LogReport calls
\* whose trigger fires and is otherwise left as it is (a kill of the process
\* before the call changes nothing), so that earlier records
\* never change and the records stand in firing order; the new record holds
\* the trainer's epoch, total iteration count and elapsed time of that step;
\* and whenever every firing call so far has completed, the log file holds the
\* serialization of the whole log.
C11_LogRecords ==
    /\ [][/\ (LogFireStep /\ pc' # "crashed") =>
                /\ Len(log') = Len(log) + 1
                /\ SubSeq(log', 1, Len(log)) = log
                /\ log'[Len(log')]["epoch"] = RatInt(epoch)
                /\ log'[Len(log')]["iteration"] = RatInt(total_iter)
                /\ log'[Len(log')]["elapsed_time"] = RatInt(elapsed_time)
          /\ ~(LogFireStep /\ pc' # "crashed") => log' = log]_vars
    /\ [](/\ \A i \in 1..Len(log) :
                {"epoch", "iteration", "elapsed_time"} \subseteq DOMAIN log[i]
          /\ \A i, j \in 1..Len(log) :
                i < j => RatLess(log[i]["iteration"], log[j]["iteration"])
          /\ printed \in {Len(log), Len(log) - 1}
          /\ (pc \in {"step", "ext", "stop"} /\ ~LogFireStep) => printed = Len(log)
          /\ (printed = Len(log) /\ Len(log) > 0) =>
                (logFile.exists /\ logFile.bytes = Serialize(log)))

\* the second firing call has completed: two records, the file holds both
C11_Witness ==
    /\ Len(log) = 2
    /\ printed = 2
    /\ logFile.bytes = Serialize(log)
    /\ log[1]["iteration"] # log[2]["iteration"]
    /\ pc = "stop"

\* the errors that come out of ProgressBar's rendering
RenderErrors == {"ZeroDivisionError", "BrokenPipeError"}

\* C12: no run is ended by an error raised in ProgressBar's rendering.
C12_RenderingNonFatal == err \notin RenderErrors

\* how many of the calls made so far fired
FireCount == Cardinality({i \in 1..Len(fired) : fired[i]})

RECURSIVE LowestOf(_, _)
LowestOf(obsSeq, n) ==
    IF n = 0 THEN Infinity
    ELSE LET rest == LowestOf(obsSeq, n - 1)
         IN IF TriggerKey \in DOMAIN obsSeq[n] /\ RatLess(obsSeq[n][TriggerKey], rest)
            THEN obsSeq[n][TriggerKey]
            ELSE rest

\* the observations that show the key with these values, in this order
ObservationsOf(values) ==
    [i \in 1..Len(values) |-> [k \in {TriggerKey} |-> RatInt(values[i])]]

\* C14: a call of the min-value trigger fires iff the observation holds the key
\* with a value strictly lower than every value seen on earlier calls (so the
\* first value seen fires); the stored best is the lowest value seen so far,
\* which a call without the key leaves as it is; for the values 5, 3, 4, 2, 2, 1
\* the calls return true, true, false, true, false, true.
C14_MinValueTrigger ==
    trigKind = "min" =>
        /\ Len(fired) = Len(fed)
        /\ \A i \in 1..Len(fed) :
              fired[i] <=> /\ TriggerKey \in DOMAIN fed[i]
                           /\ \A j \in 1..(i - 1) :
                                TriggerKey \in DOMAIN fed[j] =>
                                    RatLess(fed[i][TriggerKey], fed[j][TriggerKey])
        /\ trigBest = LowestOf(fed, Len(fed))
        /\ fed = ObservationsOf(<<5, 3, 4, 2, 2, 1>>) =>
              fired = <<TRUE, TRUE, FALSE, TRUE, FALSE, TRUE>>

\* the trigger has been shown 5, 3, 4, 2, 2, 1
C14_Witness ==
    /\ trigKind = "min"
    /\ fed = ObservationsOf(<<5, 3, 4, 2, 2, 1>>)
    /\ trigBest = RatInt(1)

\* a call without the key, after the key was seen, has left the best alone
C14_AbsentWitness ==
    /\ trigKind = "min"
    /\ Len(fed) = 3
    /\ fed[1] = EmptyMap /\ TriggerKey \in DOMAIN fed[2] /\ fed[3] = EmptyMap
    /\ ~fired[1] /\ fired[2] /\ ~fired[3]
    /\ trigBest = fed[2][TriggerKey]

\* C15: no path is written both by SnapshotModel.__call__ and by its finalize;
\* __call__ writes only the interval-snapshot names and finalize only the
\* 'latest' names, the two sets are disjoint, and each holds one name per
\* model (one name in all for a single model), whatever the step.
C15_DistinctSnapshotFiles ==
    /\ \A f \in DOMAIN writers :
         /\ Cardinality(writers[f]) = 1
         /\ "call" \in writers[f] => f \in SnapshotFiles
         /\ "finalize" \in writers[f] => f \in LatestFiles
    /\ DOMAIN files = DOMAIN writers
    /\ SnapshotFiles \cap LatestFiles = {}
    /\ modelNames # {} =>
         /\ Cardinality(SnapshotFiles) = Cardinality(modelNames)
         /\ Cardinality(LatestFiles) = Cardinality(modelNames)

\* a run with named models is over; the trigger fired and finalize wrote
C15_Witness ==
    /\ pc = "done"
    /\ modelNames # {}
    /\ SnapshotFiles \cup LatestFiles \subseteq DOMAIN files

\* the trigger fired in the SnapshotModel call of the current step
SnapshotFiredNow == "SnapshotModel" \in Exts /\ fireStep = total_iter /\ total_iter > 0

C17_RaisedWitness ==
    /\ SnapshotFiredNow
    /\ ~dirExists
    /\ err = "FileNotFoundError"
    /\ finalized["SnapshotModel"] = 0

\* the write of the temporary file failed in the LogReport call
LogWriteFailed == err = "OSError"

\* C16: when the write of the temporary file fails, the error ends the call
\* (and the run); the log file is what it was before the call, absent or the
\* whole earlier log; the record of the interval is the last of the in-memory
\* log; and the summarizer still holds the interval's data, whose means are
\* the record's.
C16_WriteFailureKeepsData ==
    LogWriteFailed =>
        /\ pc \in {"finalize", "done", "crashed"}
        /\ calls[Len(calls)] = "LogReport"
        /\ tmpFile = NoFile
        /\ Len(log) = printed + 1
        /\ logFile = IF printed = 0
                     THEN NoFile
                     ELSE [exists |-> TRUE, bytes |-> Serialize(SubSeq(log, 1, printed))]
        /\ "training/loss" \in DOMAIN lrSummary
        /\ ComputeMean(lrSummary) = MapRestrict(log[Len(log)], DOMAIN lrSummary)
        /\ log[Len(log)]["iteration"] = RatInt(total_iter)

\* the write failed in the second firing call: the first log is still on disk
C16_Witness ==
    /\ LogWriteFailed
    /\ pc = "done"
    /\ printed = 1
    /\ logFile.exists
    /\ Len(log) = 2

\* control is inside an extension call
InExtensionCall == pc \in {"ext", "log_write"} \/ InEvaluator

\* the evaluator is about to be called and its trigger will not fire
EvaluatorIdleStep ==
    pc = "ext" /\ CurExt \in Evaluators /\ ~PeriodicFires(epoch, evLast, EvalInterval)

\* SnapshotModel is about to be called and its trigger will not fire
SnapshotIdleStep ==
    /\ pc = "ext" /\ CurExt = "SnapshotModel"
    /\ IF snapTrigger = "min"
       THEN ~MinValueFires(observation, EvalLossKey, snapBest)
       ELSE ~PeriodicFires(epoch, snapLast, SnapshotInterval)

\* what an extension whose trigger does not fire must leave alone
Effects == <<observation, scopes, modelMode, files, dirExists, log, logFile, tmpFile,
             lrSummary, evSummary, evalObs, err, counterVars>>

\* C18: no step of an extension call changes the Updater's epoch or iteration
\* or the Trainer's total iteration count, whatever the number of batches of
\* an evaluation pass; and a call of an evaluator or of SnapshotModel whose
\* trigger does not fire reports nothing, leaves the model's mode and every
\* file as they are and returns.
C18_ExtensionFrame ==
    [][/\ InExtensionCall => UNCHANGED <<epoch, iteration, total_iter>>
       /\ (EvaluatorIdleStep \/ SnapshotIdleStep) =>
             /\ UNCHANGED Effects
             /\ pc' \in {"ext", "stop", "crashed"}]_vars

\* step 3, in which no trigger fired, is complete, after the evaluation pass
\* over the whole loader and the snapshot of step 2
C18_Witness ==
    /\ pc = "stop"
    /\ total_iter = EpochLen + 1
    /\ Len(calls) = Len(registered)
    /\ loaderLen = MaxLoaderLen
    /\ snapStep = EpochLen
    /\ evalEnd = "none"
    /\ modelMode = "train"

\* the step being completed is the one that completed an epoch
EpochBoundaryStep == iteration = EpochLen

\* C19: once an extension has been invoked in a step, its trigger has been
\* shown the counter of that step, whether or not it fired (it is consulted on
\* every invocation); and when all the calls of a step have returned, each
\* triggered extension has acted in that step exactly if the step crossed the
\* boundary of its interval: no boundary is missed and none is acted on in a
\* step that crossed none, as a second consultation in the same step would do.
C19_TriggerOncePerStep ==
    /\ "LogReport" \in Range(calls) => lrLast = epoch
    /\ Evaluator \in Range(calls) => evLast = epoch
    /\ ("SnapshotModel" \in Range(calls) /\ snapTrigger = "epoch") => snapLast = epoch
    /\ pc = "stop" =>
          /\ (Len(log) > 0 /\ log[Len(log)]["iteration"] = RatInt(total_iter))
                <=> EpochBoundaryStep
          /\ (evalEnd = "returned") <=> EpochBoundaryStep
          /\ snapTrigger = "epoch" => ((fireStep = total_iter) <=> EpochBoundaryStep)
          /\ Len(log) = epoch

\* the second epoch is complete and every extension has acted a second time
C19_Witness ==
    /\ pc = "stop"
    /\ epoch = 2
    /\ EpochBoundaryStep
    /\ Len(log) = 2
    /\ evalEnd = "returned"
    /\ snapTrigger = "epoch" /\ fireStep = total_iter

\* C20: every line printout has written belongs to one record of the log and
\* has one column per requested key, in their order; a key the record lacks
\* gives 20 blanks, a key it holds gives its value (epoch in 10 characters,
\* the others in 20 with five decimals); no call ended with a KeyError, so
\* there is one line per record whose call completed.
C20_PrintoutBlanks ==
    /\ err # "KeyError"
    /\ Len(console) = printed
    /\ \A n \in 1..Len(console) :
         LET keys == LogKeyList(Evaluator)
         IN /\ n <= Len(log)
            /\ Len(console[n]) = Len(keys)
            /\ \A i \in 1..Len(keys) :
                 IF keys[i] \in DOMAIN log[n]
                 THEN /\ console[n][i].kind # "blank"
                      /\ console[n][i].width = (IF keys[i] = "epoch" THEN 10 ELSE 20)
                      /\ console[n][i].digits =
                            (IF keys[i] = "epoch"
                             THEN n
                             ELSE (2 * log[n][keys[i]][1] * 100000 + log[n][keys[i]][2])
                                      \div (2 * log[n][keys[i]][2]))
                 ELSE console[n][i] = [width |-> 20, kind |-> "blank", digits |-> 0]

\* two lines are out, each with blank columns (the accuracy was never
\* reported) next to the columns of the epoch and of the training loss
C20_Witness ==
    /\ Len(console) = 2
    /\ \E i \in 1..Len(console[2]) : console[2][i].kind = "blank"
    /\ console[2][1].kind = "int"
    /\ console[2][2].kind = "fixed"
    /\ console[1][2] # console[2][2]

====
